---------------------------- MODULE Spec2Model ----------------------------
(***************************************************************************)
(* A model of legolas_common's transport core:                             *)
(*   - the wire codec            (src/src/packet_types.py)                 *)
(*   - the connection handler    (src/src/connection_handler.py)           *)
(*   - the socket server         (src/src/socket_server.py)                *)
(*   - the socket client         (src/src/socket_client.py)                *)
(* Bytes are integers 0..255 and byte strings are sequences of bytes.      *)
(***************************************************************************)
EXTENDS Integers, Sequences, FiniteSets, TLC

(***************************************************************************)
(* Byte-string helpers                                                     *)
(***************************************************************************)

\* data[a:b] of Python, 0-based and clipped to the length of the string
Slice(s, a, b) ==
    LET hi == IF b > Len(s) THEN Len(s) ELSE b
    IN  IF a >= hi THEN << >> ELSE SubSeq(s, a + 1, hi)

\* data[a:] of Python
From(s, a) == Slice(s, a, Len(s))

RECURSIVE ToBE(_, _)
\* the w-byte big-endian representation of n (struct's "!" byte order)
ToBE(n, w) == IF w = 0 THEN << >> ELSE Append(ToBE(n \div 256, w - 1), n % 256)

RECURSIVE FromBE(_)
\* the unsigned integer a big-endian byte string stands for
FromBE(s) == IF s = << >> THEN 0 ELSE FromBE(SubSeq(s, 1, Len(s) - 1)) * 256 + s[Len(s)]

RECURSIVE ToLE(_, _)
\* the w-byte little-endian representation of n (pickle's frame length)
ToLE(n, w) == IF w = 0 THEN << >> ELSE << n % 256 >> \o ToLE(n \div 256, w - 1)

RECURSIVE FromLE(_)
FromLE(s) == IF s = << >> THEN 0 ELSE s[1] + 256 * FromLE(Tail(s))

(***************************************************************************)
(* Values.  A payload is a record [t, v]: t is the Python type of the      *)
(* value and v a sequence of integers: <<n>> for an int, the code points   *)
(* for a str, <<k1, v1, k2, v2, ...>> (in insertion order, one-character   *)
(* keys, int values) for a dict, << >> for None and for a raster.          *)
(***************************************************************************)

PyInt(n)   == [t |-> "int", v |-> << n >>]
PyStr(cps) == [t |-> "str", v |-> cps]
PyDict(kv) == [t |-> "dict", v |-> kv]
PyNone     == [t |-> "none", v |-> << >>]
PyArray    == [t |-> "ndarray", v |-> << >>]

\* "CONN_SHUTDOWN"
CONN_SHUTDOWN == << 67, 79, 78, 78, 95, 83, 72, 85, 84, 68, 79, 87, 78 >>

\* PacketType
CONTROL  == 0
IMAGE    == 1
ACK      == 2
INTERNAL == 3
PacketType == {CONTROL, IMAGE, ACK, INTERNAL}

\* PacketAddress(ip, port): the four octets and the port
PacketAddress(ip, port) == [ip |-> ip, port |-> port]

BROADCAST_DEST == PacketAddress(<< 0, 0, 0, 0 >>, 0)

\* Packet(packet_type, packet_address, payload, timestamp)
Packet(ty, addr, payload, ts) ==
    [packet_type |-> ty, packet_address |-> addr, payload |-> payload, timestamp |-> ts]

\* the value a dict maps key k to: the last pair with that key wins
RECURSIVE DictGet(_, _)
DictGet(kv, k) ==
    IF kv = << >> THEN -1
    ELSE IF kv[Len(kv) - 1] = k THEN kv[Len(kv)]
    ELSE DictGet(SubSeq(kv, 1, Len(kv) - 2), k)

DictKeys(kv) == {kv[i] : i \in {j \in 1..Len(kv) : j % 2 = 1}}

\* == of two Python values
PayloadEq(p, q) ==
    /\ p.t = q.t
    /\ IF p.t = "dict"
       THEN /\ DictKeys(p.v) = DictKeys(q.v)
            /\ \A k \in DictKeys(p.v) : DictGet(p.v, k) = DictGet(q.v, k)
       ELSE p.v = q.v


(***************************************************************************)
(* The payload encodings pack and unpack call.  A result is a record       *)
(* [ok, v]: ok = FALSE stands for the call raising an exception.           *)
(***************************************************************************)

Raised == [ok |-> FALSE, v |-> << >>]
Ok(x)  == [ok |-> TRUE, v |-> x]

\* int.to_bytes(): length 1, big-endian, unsigned; OverflowError otherwise
IntToBytes(n) == IF n < 0 \/ n > 255 THEN Raised ELSE Ok(ToBE(n, 1))

\* int.from_bytes(data): big-endian, unsigned (0 for the empty string)
IntFromBytes(data) == FromBE(data)

\* the UTF-8 bytes of one code point; surrogates cannot be encoded
Utf8Char(cp) ==
    IF cp < 128 THEN Ok(<< cp >>)
    ELSE IF cp < 2048 THEN Ok(<< 192 + cp \div 64, 128 + (cp % 64) >>)
    ELSE IF cp >= 55296 /\ cp <= 57343 THEN Raised
    ELSE IF cp < 65536
         THEN Ok(<< 224 + cp \div 4096, 128 + ((cp \div 64) % 64), 128 + (cp % 64) >>)
    ELSE Ok(<< 240 + cp \div 262144, 128 + ((cp \div 4096) % 64),
               128 + ((cp \div 64) % 64), 128 + (cp % 64) >>)

RECURSIVE StrEncodeFrom(_, _)
\* the encoder's loop: the code points left and the bytes made so far
StrEncodeFrom(cps, out) ==
    IF cps = << >> THEN Ok(out)
    ELSE IF ~Utf8Char(Head(cps)).ok THEN Raised
    ELSE StrEncodeFrom(Tail(cps), out \o Utf8Char(Head(cps)).v)

\* str.encode(): UTF-8, strict
StrEncode(cps) == StrEncodeFrom(cps, << >>)

IsCont(b) == b >= 128 /\ b <= 191

\* the length of the UTF-8 sequence a lead byte starts, 0 for an invalid lead
Utf8Len(b) ==
    IF b < 128 THEN 1
    ELSE IF b >= 194 /\ b <= 223 THEN 2
    ELSE IF b >= 224 /\ b <= 239 THEN 3
    ELSE IF b >= 240 /\ b <= 244 THEN 4
    ELSE 0

\* the second byte of a sequence is in the range its lead byte allows
\* (no overlong forms, no surrogates, nothing above U+10FFFF)
Utf8Second(b0, b1) ==
    IF b0 = 224 THEN b1 >= 160 /\ b1 <= 191
    ELSE IF b0 = 237 THEN b1 >= 128 /\ b1 <= 159
    ELSE IF b0 = 240 THEN b1 >= 144 /\ b1 <= 191
    ELSE IF b0 = 244 THEN b1 >= 128 /\ b1 <= 143
    ELSE IsCont(b1)

RECURSIVE BytesDecodeFrom(_, _)
\* the decoder's loop: the bytes left and the code points made so far
BytesDecodeFrom(data, out) ==
    IF data = << >> THEN Ok(out)
    ELSE LET n == Utf8Len(data[1]) IN
         IF n = 0 \/ Len(data) < n THEN Raised
         ELSE IF n >= 2 /\ ~Utf8Second(data[1], data[2]) THEN Raised
         ELSE IF \E i \in 3..n : ~IsCont(data[i]) THEN Raised
         ELSE LET cp == CASE n = 1 -> data[1]
                          [] n = 2 -> (data[1] - 192) * 64 + (data[2] - 128)
                          [] n = 3 -> (data[1] - 224) * 4096 + (data[2] - 128) * 64
                                      + (data[3] - 128)
                          [] n = 4 -> (data[1] - 240) * 262144 + (data[2] - 128) * 4096
                                      + (data[3] - 128) * 64 + (data[4] - 128)
              IN  BytesDecodeFrom(From(data, n), Append(out, cp))

\* bytes.decode(): UTF-8, strict; UnicodeDecodeError on an invalid sequence
BytesDecode(data) == BytesDecodeFrom(data, << >>)

(***************************************************************************)
(* pickle, protocol 4, on the dicts the model sends: one-character str     *)
(* keys and int values 0..255.  PickleLoads interprets the opcodes         *)
(* PickleDumps emits; any other opcode, a short stack or a short input     *)
(* raises.                                                                 *)
(***************************************************************************)

PROTO     == 128
FRAME     == 149
EMPTYDICT == 125
MEMOIZE   == 148
SHORTUNI  == 140
BININT1   == 75
SETITEM   == 115
MARK      == 40
SETITEMS  == 117
STOP      == 46

RECURSIVE PickleItems(_)
\* key, MEMOIZE, value for every pair of the dict
PickleItems(kv) ==
    IF kv = << >> THEN << >>
    ELSE << SHORTUNI, 1, kv[1], MEMOIZE, BININT1, kv[2] >> \o PickleItems(From(kv, 2))

\* pickle.dumps(d): the body is framed when it is 4 bytes or longer
PickleDumps(kv) ==
    LET n     == Len(kv) \div 2
        items == IF n = 0 THEN << >>
                 ELSE IF n = 1 THEN PickleItems(kv) \o << SETITEM >>
                 ELSE << MARK >> \o PickleItems(kv) \o << SETITEMS >>
        body  == << EMPTYDICT, MEMOIZE >> \o items \o << STOP >>
    IN  << PROTO, 4 >>
        \o (IF Len(body) >= 4 THEN << FRAME >> \o ToLE(Len(body), 8) ELSE << >>)
        \o body

PyMark == [t |-> "mark", v |-> << >>]

\* the index of the topmost MARK of the stack, 0 when there is none
TopMark(stack) ==
    LET M == {i \in 1..Len(stack) : stack[i] = PyMark}
    IN  IF M = {} THEN 0 ELSE CHOOSE i \in M : \A j \in M : j <= i

\* a stack item usable as a key / as a value of the dicts modelled
IsKey(x) == x.t = "str" /\ Len(x.v) = 1
IsVal(x) == x.t = "int"

RECURSIVE SetItems(_, _)
\* d.update of the key/value items, in order
SetItems(kv, items) ==
    IF items = << >> THEN kv
    ELSE SetItems(kv \o << items[1].v[1], items[2].v[1] >>, From(items, 2))

RECURSIVE Unpickle(_, _, _)
\* the unpickler's loop: data, the 1-based position of the next opcode, the stack
Unpickle(data, pos, stack) ==
    IF pos > Len(data) THEN Raised
    ELSE LET op == data[pos]
             n  == Len(stack)
         IN
         IF op = PROTO THEN
             IF pos + 1 > Len(data) \/ data[pos + 1] > 5 THEN Raised
             ELSE Unpickle(data, pos + 2, stack)
         ELSE IF op = FRAME THEN
             IF pos + 8 > Len(data) THEN Raised
             ELSE IF Len(data) - (pos + 8) < FromLE(SubSeq(data, pos + 1, pos + 8))
                  THEN Raised
             ELSE Unpickle(data, pos + 9, stack)
         ELSE IF op = EMPTYDICT THEN Unpickle(data, pos + 1, Append(stack, PyDict(<< >>)))
         ELSE IF op = MEMOIZE THEN
             IF n = 0 THEN Raised ELSE Unpickle(data, pos + 1, stack)
         ELSE IF op = SHORTUNI THEN
             IF pos + 1 > Len(data) \/ pos + 1 + data[pos + 1] > Len(data) THEN Raised
             ELSE LET s == BytesDecode(SubSeq(data, pos + 2, pos + 1 + data[pos + 1]))
                  IN  IF ~s.ok THEN Raised
                      ELSE Unpickle(data, pos + 2 + data[pos + 1], Append(stack, PyStr(s.v)))
         ELSE IF op = BININT1 THEN
             IF pos + 1 > Len(data) THEN Raised
             ELSE Unpickle(data, pos + 2, Append(stack, PyInt(data[pos + 1])))
         ELSE IF op = MARK THEN Unpickle(data, pos + 1, Append(stack, PyMark))
         ELSE IF op = SETITEM THEN
             IF n < 3 THEN Raised
             ELSE IF stack[n - 2].t # "dict" \/ ~IsKey(stack[n - 1]) \/ ~IsVal(stack[n])
                  THEN Raised
             ELSE Unpickle(data, pos + 1,
                           Append(SubSeq(stack, 1, n - 3),
                                  PyDict(SetItems(stack[n - 2].v, SubSeq(stack, n - 1, n)))))
         ELSE IF op = SETITEMS THEN
             LET m     == TopMark(stack)
                 items == SubSeq(stack, m + 1, n)
             IN  IF m < 2 THEN Raised
                 ELSE IF stack[m - 1].t # "dict" THEN Raised
                 ELSE IF Len(items) % 2 # 0 THEN Raised
                 ELSE IF \E i \in 1..Len(items) :
                            IF i % 2 = 1 THEN ~IsKey(items[i]) ELSE ~IsVal(items[i])
                      THEN Raised
                 ELSE Unpickle(data, pos + 1,
                               Append(SubSeq(stack, 1, m - 2),
                                      PyDict(SetItems(stack[m - 1].v, items))))
         ELSE IF op = STOP THEN
             IF n = 0 THEN Raised
             ELSE IF stack[n] = PyMark THEN Raised
             ELSE Ok(stack[n])
         ELSE Raised

\* pickle.loads(data)
PickleLoads(data) == Unpickle(data, 1, << >>)

(***************************************************************************)
(* cv2.imencode(".bmp", ...) / cv2.imdecode: a raster is opaque here.  The *)
(* encoding starts with the BMP magic "BM"; imdecode raises on an empty    *)
(* buffer and returns None for bytes that are no image.                    *)
(***************************************************************************)

ImEncode == << 66, 77 >>

ImDecode(data) ==
    IF data = << >> THEN Raised
    ELSE IF Slice(data, 0, 2) = << 66, 77 >> THEN Ok(PyArray)
    ELSE Ok(PyNone)

(***************************************************************************)
(* Packet.pack and Packet.unpack                                           *)
(***************************************************************************)

\* struct.calcsize("!BBBBBiQd")
HEADER_SIZE == 25

\* Packet.pack's choice of the payload encoding, by the type of the payload
PayloadData(payload) ==
    IF payload.t = "int" THEN IntToBytes(payload.v[1])
    ELSE IF payload.t = "ndarray" THEN Ok(ImEncode)
    ELSE IF payload.t = "dict" THEN Ok(PickleDumps(payload.v))
    ELSE IF payload.t = "str" THEN StrEncode(payload.v)
    ELSE Raised

\* the 8 bytes of the double t: the model's clock values are small naturals,
\* and a double is kept as its 8 bytes, here the big-endian bytes of t
Double(t) == ToBE(t, 8)

\* the "i" field: 4 bytes, big-endian, two's complement
PackInt(n) ==
    IF n >= 0 THEN ToBE(n, 4)
    ELSE [i \in 1..4 |-> 255 - ToBE(-1 - n, 4)[i]]

UnpackInt(s) ==
    IF s[1] < 128 THEN FromBE(s)
    ELSE -1 - FromBE([i \in 1..4 |-> 255 - s[i]])

\* struct.pack("!BBBBBiQd", type, *ip, port, length, time): struct.error when
\* a field is out of the range of its format or the ip has not four octets
\* (every integer of the model is in the range of "i")
StructPack(ty, ip, port, length, t) ==
    IF \/ ty < 0 \/ ty > 255
       \/ Len(ip) # 4
       \/ \E i \in 1..Len(ip) : ip[i] < 0 \/ ip[i] > 255
    THEN Raised
    ELSE Ok(<< ty >> \o ip \o PackInt(port) \o ToBE(length, 8) \o Double(t))

\* Packet.pack(packet) at time t
pack(packet, t) ==
    LET payload_data == PayloadData(packet.payload) IN
    IF ~payload_data.ok THEN Raised
    ELSE LET header == StructPack(packet.packet_type, packet.packet_address.ip,
                                  packet.packet_address.port, Len(payload_data.v), t)
         IN  IF ~header.ok THEN Raised ELSE Ok(header.v \o payload_data.v)

\* a length no buffer of the model reaches: 2^24
HugeLength == 16777216

\* struct.unpack of the payload length, the "Q" field: bytes 9..16 of the
\* header.  A length of 2^24 or more is only ever compared with the length of
\* the buffer, and is kept as 2^24.
PayloadLength(data) ==
    IF Slice(data, 9, 14) # << 0, 0, 0, 0, 0 >> THEN HugeLength
    ELSE FromBE(Slice(data, 14, 17))

\* len(data) < cls.HEADER_SIZE
ShortHeader(data) == Len(data) < HEADER_SIZE

\* the check of the payload length left out
ShortPayload_Omitted(data) == FALSE

\* the check of the payload length with a header of 23 bytes
ShortPayload_Header23(data) == Len(data) < 23 + PayloadLength(data)

\* len(data) < cls.HEADER_SIZE + payload_length
ShortPayload(data) == Len(data) < HEADER_SIZE + PayloadLength(data)

\* the remainder cut one byte late
RemainingData_OffByOne(data) == From(data, HEADER_SIZE + PayloadLength(data) + 1)

\* data[cls.HEADER_SIZE + payload_length :]
RemainingData(data) == From(data, HEADER_SIZE + PayloadLength(data))

\* Packet.unpack's decoding of the payload, by the packet type
DecodePayload(payload_type, payload_data) ==
    IF payload_type = CONTROL THEN PickleLoads(payload_data)
    ELSE IF payload_type = IMAGE THEN ImDecode(payload_data)
    ELSE IF payload_type = ACK THEN Ok(PyInt(IntFromBytes(payload_data)))
    ELSE LET s == BytesDecode(payload_data)
         IN  IF s.ok THEN Ok(PyStr(s.v)) ELSE Raised

NoPacket == Packet(-1, BROADCAST_DEST, PyNone, Double(0))

\* the three outcomes of Packet.unpack: a packet and the remaining bytes,
\* None and the data unchanged, or an exception
UnpackNone(data)       == [st |-> "none", pkt |-> NoPacket, rest |-> data]
UnpackRaise(data)      == [st |-> "raise", pkt |-> NoPacket, rest |-> data]
UnpackPacket(pkt, rem) == [st |-> "packet", pkt |-> pkt, rest |-> rem]

\* Packet.unpack(data)
unpack(data) ==
    IF ShortHeader(data) THEN UnpackNone(data)
    ELSE LET packet_type_value == data[1]
             source_ip         == Slice(data, 1, 5)
             source_port       == UnpackInt(Slice(data, 5, 9))
             payload_length    == PayloadLength(data)
             timestamp         == Slice(data, 17, 25)
         IN
         IF ShortPayload(data) THEN UnpackNone(data)
         ELSE LET payload_data   == Slice(data, HEADER_SIZE, HEADER_SIZE + payload_length)
                  remaining_data == RemainingData(data)
              IN  IF packet_type_value \notin PacketType THEN UnpackRaise(data)
                  ELSE LET payload == DecodePayload(packet_type_value, payload_data)
                       IN  IF ~payload.ok THEN UnpackRaise(data)
                           ELSE UnpackPacket(
                                    Packet(packet_type_value,
                                           PacketAddress(source_ip, source_port),
                                           payload.v, timestamp),
                                    remaining_data)

(***************************************************************************)
(* The inputs the model draws                                              *)
(***************************************************************************)

\* the number of frames packed into one buffer
MaxFrames == 2
\* the clock values time.time() returns
MaxClock == 2

LOCALHOST == PacketAddress(<< 127, 0, 0, 1 >>, 2445)
PEER      == PacketAddress(<< 10, 0, 0, 2 >>, 65535)

\* payloads valid for their packet type (section 3 of the design: CONTROL a
\* mapping, ACK a non-negative integer, INTERNAL a string)
ValidPayloads(ty) ==
    IF ty = CONTROL THEN {PyDict(<< >>), PyDict(<< 97, 1 >>), PyDict(<< 97, 1, 98, 255 >>)}
    ELSE IF ty = ACK THEN {PyInt(0), PyInt(13), PyInt(255), PyInt(256)}
    ELSE IF ty = INTERNAL
         THEN {PyStr(<< >>), PyStr(CONN_SHUTDOWN), PyStr(<< 233, 8364, 65 >>)}
    ELSE {}

\* the messages an application builds, at time 0
Messages ==
    {Packet(ty, a, p, Double(0)) :
        ty \in {CONTROL}, a \in {LOCALHOST}, p \in ValidPayloads(CONTROL)}
    \cup {Packet(ty, a, p, Double(0)) :
        ty \in {ACK}, a \in {LOCALHOST, BROADCAST_DEST}, p \in ValidPayloads(ACK)}
    \cup {Packet(ty, a, p, Double(0)) :
        ty \in {INTERNAL}, a \in {LOCALHOST, PEER}, p \in ValidPayloads(INTERNAL)}

\* a header with nothing after it
Header(ty, length) == StructPack(ty, LOCALHOST.ip, LOCALHOST.port, length, 1).v

\* b"12345"
Junk == << 49, 50, 51, 52, 53 >>

\* bytes appended after the last frame of a buffer: nothing, a few bytes, a
\* header that announces a payload which is not there, and whole frames
ExtraBytes ==
    { << >>, Junk, Header(INTERNAL, 1), Header(INTERNAL, 0), Header(ACK, 1) \o << 7 >> }

\* arbitrary buffers handed to unpack
FuzzBuffers ==
    { Junk,
      Header(9, 0),                        \* no PacketType has the value 9
      Header(CONTROL, 0),                  \* pickle.loads(b"")
      Header(CONTROL, 5) \o Junk,          \* no pickle
      Header(INTERNAL, 1) \o << 255 >>,    \* no UTF-8
      Header(IMAGE, 0),                    \* cv2.imdecode of an empty buffer
      Header(IMAGE, 5) \o Junk,            \* no image: the payload is None
      Header(ACK, 0),                      \* int.from_bytes(b"")
      << INTERNAL, 0, 0, 0, 0, 0, 0, 0, 0, 255, 255, 255, 255, 255, 255, 255, 255,
         0, 0, 0, 0, 0, 0, 0, 0 >> \o Junk  \* a length of 2^64 - 1
    }

(***************************************************************************)
(* The state                                                               *)
(***************************************************************************)

\* the connections ever made
MaxConns == 2

\* the connection attempts of the client the server refuses in one run
MaxRefused == 1

Conns == 1..MaxConns

VARIABLES
    role,       \* what runs: "codec", "rx" (one handler), "server" or "client"
    now,        \* the clock: the value time.time() returns
    \* the codec on its own
    cmode,      \* how the buffer is built: "frames", "prefix" or "fuzz"
    inputs,     \* the packets packed, in order
    extra,      \* the bytes appended after the frames / the fuzz buffer
    cpc,        \* "start", "unpacking", "done", "pack_raised"
    wire,       \* the buffer as built
    data,       \* the bytes still to be unpacked
    results,    \* the outcomes of the calls of unpack so far
    \* shared by the handlers and their owner
    stop_event, \* threading.Event: set or not
    queue,      \* the Queue objects: the packets each holds, oldest first
    handlers,   \* the ConnectionHandler of every connection
    sockets,    \* the socket of every connection and the bytes in flight
    \* SocketServer
    rx_queues,          \* dict: address -> rx queue, in insertion order
    tx_queues,          \* dict: address -> tx queue
    connection_handlers,\* dict: address -> ConnectionHandler
    new_socket_queue,   \* the accepted connections not registered yet
    run_thread,         \* _run_handler: where it is and its locals
    accept_thread,      \* _accept_handler: "accept" or "done"
    \* SocketClient
    client,             \* the fields of the client and where _run_handler is
    \* the environment
    env,                \* how much the application and the peers have sent, and
                        \* when the client last lost a connection
    \* the thread that calls shutdown()
    shutdown            \* where it is in shutdown(), the iterator of its for loop,
                        \* and the listening socket it closes

codec_vars  == << cmode, inputs, extra, cpc, wire, data, results >>
engine_vars == << stop_event, queue, handlers, sockets >>
server_vars == << rx_queues, tx_queues, connection_handlers, new_socket_queue,
                  run_thread, accept_thread >>

vars == << role, now, codec_vars, engine_vars, server_vars, client, env, shutdown >>

(***************************************************************************)
(* The codec on its own: buffers are built from the inputs and unpack is   *)
(* applied to them until it returns None or raises.                        *)
(***************************************************************************)

RECURSIVE SeqsOf(_, _)
\* the sequences of length n over S
SeqsOf(S, n) ==
    IF n = 0 THEN {<< >>}
    ELSE {Append(q, x) : q \in SeqsOf(S, n - 1), x \in S}

RECURSIVE PackAll(_, _)
\* the frames of the packets, one after the other; raises when a pack does
PackAll(pkts, t) ==
    IF pkts = << >> THEN Ok(<< >>)
    ELSE LET h == pack(Head(pkts), t)
             r == PackAll(Tail(pkts), t)
         IN  IF h.ok /\ r.ok THEN Ok(h.v \o r.v) ELSE Raised

\* pack(m1) + pack(m2) + ... + extra_bytes
CodecPack ==
    /\ cpc = "start" /\ cmode = "frames"
    /\ LET b == PackAll(inputs, now) IN
       IF b.ok
       THEN /\ wire' = b.v \o extra
            /\ data' = b.v \o extra
            /\ cpc' = "unpacking"
       ELSE /\ cpc' = "pack_raised"
            /\ UNCHANGED << wire, data >>
    /\ UNCHANGED << shutdown, role, now, client, cmode, inputs, extra, results, engine_vars, server_vars, env >>

\* a proper prefix of pack(m)
CodecPrefix ==
    /\ cpc = "start" /\ cmode = "prefix"
    /\ LET b == pack(inputs[1], now) IN
       IF b.ok
       THEN \E k \in 0..(Len(b.v) - 1) :
                /\ wire' = Slice(b.v, 0, k)
                /\ data' = Slice(b.v, 0, k)
                /\ cpc' = "unpacking"
       ELSE /\ cpc' = "pack_raised"
            /\ UNCHANGED << wire, data >>
    /\ UNCHANGED << shutdown, role, now, client, cmode, inputs, extra, results, engine_vars, server_vars, env >>

\* any buffer
CodecFuzz ==
    /\ cpc = "start" /\ cmode = "fuzz"
    /\ wire' = extra
    /\ data' = extra
    /\ cpc' = "unpacking"
    /\ UNCHANGED << shutdown, role, now, client, cmode, inputs, extra, results, engine_vars, server_vars, env >>

\* packet, remaining = Packet.unpack(data), again on the remaining bytes after
\* every packet
CodecUnpack ==
    /\ cpc = "unpacking"
    /\ LET r == unpack(data) IN
       /\ results' = Append(results, r)
       /\ IF r.st = "packet"
          THEN data' = r.rest /\ cpc' = "unpacking"
          ELSE data' = data /\ cpc' = "done"
    /\ UNCHANGED << shutdown, role, now, client, cmode, inputs, extra, wire, engine_vars, server_vars, env >>

(***************************************************************************)
(* Queues, handlers and sockets                                            *)
(***************************************************************************)

\* the Queue objects: the application's two, the client's internal one, and
\* the pair the server makes for every connection
NoQueue       == << "none", 0 >>
OUTGOING_DATA == << "outgoing_data", 0 >>
RECEIVED_DATA == << "received_data", 0 >>
INTERNAL_RECV == << "internal_recv", 0 >>
TxQueue(c)    == << "tx_queue", c >>
RxQueue(c)    == << "rx_queue", c >>
QueueIds ==
    {OUTGOING_DATA, RECEIVED_DATA, INTERNAL_RECV}
    \cup {TxQueue(c) : c \in Conns} \cup {RxQueue(c) : c \in Conns}

\* a put at the head of the queue
Put_Front(q, m) == [queue EXCEPT ![q] = << m >> \o @]

\* Queue.put(m), Queue.empty() and what Queue.get() leaves
Put(q, m)   == [queue EXCEPT ![q] = Append(@, m)]
IsEmpty(q)  == queue[q] = << >>
Got(q)      == [queue EXCEPT ![q] = Tail(@)]

\* no ConnectionHandler made yet for the connection
NoHandler ==
    [tx_queue |-> NoQueue, rx_queue |-> NoQueue, recv_bytes |-> << >>,
     exited |-> FALSE, rx |-> "idle", tx |-> "idle"]

\* ConnectionHandler(tx_queue, rx_queue, ...) followed by start(): both
\* threads are at the top of their loops
StartedHandler(tx_queue, rx_queue) ==
    [tx_queue |-> tx_queue, rx_queue |-> rx_queue, recv_bytes |-> << >>,
     exited |-> FALSE, rx |-> "loop", tx |-> "loop"]

\* a connection that does not exist yet; state is "none", "open" or "closed"
\* (closed on this side), net_in the bytes the peer has sent and recv has not
\* returned yet, net_out the bytes sendall has written
NoSocket ==
    [state |-> "none", addr |-> BROADCAST_DEST, net_in |-> << >>, net_out |-> << >>,
     peer_closed |-> FALSE]

OpenSocket(addr, bytes) ==
    [state |-> "open", addr |-> addr, net_in |-> bytes, net_out |-> << >>,
     peer_closed |-> FALSE]

\* the sentinel addressed to the peer of the model
ShutdownPacket_ToPeer(t) == Packet(INTERNAL, PEER, PyStr(CONN_SHUTDOWN), Double(t))

\* the sentinel of a handler whose receive loop has ended:
\* Packet(PacketType.INTERNAL, BROADCAST_DEST, "CONN_SHUTDOWN") made at time t
ShutdownPacket(t) == Packet(INTERNAL, BROADCAST_DEST, PyStr(CONN_SHUTDOWN), Double(t))

(***************************************************************************)
(* ConnectionHandler._run_rx                                               *)
(***************************************************************************)

\* what one recv may return of the bytes in flight: any non-empty part of
\* them when one handler is examined on its own, all of them otherwise
Chunks(c) ==
    IF role = "rx" THEN 1..Len(sockets[c].net_in) ELSE {Len(sockets[c].net_in)} \ {0}

\* the accumulator overwritten by the bytes just read
Accumulate_Replace(recv_bytes, chunk) == chunk

\* self.recv_bytes += data
Accumulate(recv_bytes, chunk) == recv_bytes \o chunk

\* an end of the stream that goes unnoticed
EndOfStream_Ignored(sock) == FALSE

\* select says readable and recv returns b"": the peer has closed and every
\* byte it sent has been read
EndOfStream(sock) == sock.net_in = << >> /\ sock.peer_closed

RECURSIVE UnpackLoop(_)
\* the inner loop: unpack, put and keep the remainder until unpack returns
\* None; an exception of unpack is caught by the handler of the outer loop,
\* which prints it, and the accumulator stays as it was before that call
UnpackLoop(recv_bytes) ==
    LET r == unpack(recv_bytes) IN
    IF r.st = "packet"
    THEN LET more == UnpackLoop(r.rest)
         IN  [pkts |-> << r.pkt >> \o more.pkts, rest |-> more.rest]
    ELSE [pkts |-> << >>, rest |-> recv_bytes]

\* one turn of the loop.  The stop event ends it.  Otherwise select and
\* recv: the bytes read go to the accumulator and every packet unpacked from
\* it goes to the rx queue; no bytes on a readable socket (the peer has
\* closed) end the loop.  Nothing readable, or a socket closed under the
\* thread (select raises, the handler prints), leaves the state as it is.
RxLoop(c) ==
    /\ handlers[c].rx = "loop"
    /\ \/ /\ stop_event
          /\ handlers' = [handlers EXCEPT ![c].rx = "exit"]
          /\ UNCHANGED << sockets, queue >>
       \/ /\ ~stop_event /\ sockets[c].state = "open"
          /\ \E k \in Chunks(c) :
                LET got == UnpackLoop(Accumulate(handlers[c].recv_bytes,
                                                 Slice(sockets[c].net_in, 0, k)))
                IN  /\ handlers' = [handlers EXCEPT ![c].recv_bytes = got.rest]
                    /\ queue' = [queue EXCEPT ![handlers[c].rx_queue] = @ \o got.pkts]
                    /\ sockets' = [sockets EXCEPT ![c].net_in = From(@, k)]
       \/ /\ ~stop_event /\ sockets[c].state = "open"
          /\ EndOfStream(sockets[c])
          /\ handlers' = [handlers EXCEPT ![c].rx = "exit"]
          /\ UNCHANGED << sockets, queue >>
    /\ UNCHANGED << shutdown, role, now, client, codec_vars, stop_event, server_vars, env >>

\* after the loop: the sentinel
RxSentinel(c) ==
    /\ handlers[c].rx = "exit"
    /\ queue' = Put(handlers[c].rx_queue, ShutdownPacket(now))
    /\ handlers' = [handlers EXCEPT ![c].rx = "close"]
    /\ UNCHANGED << shutdown, role, now, client, codec_vars, stop_event, sockets, server_vars, env >>

\* self.client_socket.close()
RxClose(c) ==
    /\ handlers[c].rx = "close"
    /\ sockets' = [sockets EXCEPT ![c].state = "closed"]
    /\ handlers' = [handlers EXCEPT ![c].rx = "mark"]
    /\ UNCHANGED << shutdown, role, now, client, codec_vars, stop_event, queue, server_vars, env >>

\* with self.lock: self.exited = True
RxMark(c) ==
    /\ handlers[c].rx = "mark"
    /\ handlers' = [handlers EXCEPT ![c].exited = TRUE, ![c].rx = "done"]
    /\ UNCHANGED << shutdown, role, now, client, codec_vars, stop_event, queue, sockets, server_vars, env >>

(***************************************************************************)
(* ConnectionHandler._run_tx                                               *)
(***************************************************************************)

\* where the thread goes after a send: on with the inner loop while the
\* queue is not empty, back to the outer loop otherwise
AfterSend(q) == IF q = << >> THEN "loop" ELSE "get"

\* the top of the outer loop: the stop event or the exited flag end the
\* thread; a queue that is not empty is drained
TxLoop(c) ==
    /\ handlers[c].tx = "loop"
    /\ \/ stop_event
       \/ handlers[c].exited
       \/ ~IsEmpty(handlers[c].tx_queue)
    /\ handlers' = [handlers EXCEPT ![c].tx =
                       IF stop_event \/ handlers[c].exited THEN "done" ELSE "get"]
    /\ UNCHANGED << shutdown, role, now, client, codec_vars, stop_event, queue, sockets, server_vars, env >>

\* message = self.tx_queue.get(); Packet.pack(message); sendall(...).  get
\* waits while the queue is empty.  An exception of pack or of sendall (the
\* socket closed on this side; a peer that has closed may or may not make
\* sendall fail) leaves both loops: the thread ends.
TxSend(c) ==
    /\ handlers[c].tx = "get"
    /\ ~IsEmpty(handlers[c].tx_queue)
    /\ LET message       == Head(queue[handlers[c].tx_queue])
           message_bytes == pack(message, now)
       IN  /\ queue' = Got(handlers[c].tx_queue)
           /\ \/ /\ message_bytes.ok /\ sockets[c].state = "open"
                 /\ sockets' = [sockets EXCEPT ![c].net_out = @ \o message_bytes.v]
                 /\ handlers' = [handlers EXCEPT
                        ![c].tx = AfterSend(queue'[handlers[c].tx_queue])]
              \/ /\ \/ ~message_bytes.ok
                    \/ sockets[c].state # "open"
                    \/ sockets[c].peer_closed
                 /\ handlers' = [handlers EXCEPT ![c].tx = "failed"]
                 /\ UNCHANGED sockets
    /\ UNCHANGED << shutdown, role, now, client, codec_vars, stop_event, server_vars, env >>

(***************************************************************************)
(* The environment of a handler                                            *)
(***************************************************************************)

\* stop_event.set()
StopSignal ==
    /\ ~stop_event
    /\ stop_event' = TRUE
    /\ UNCHANGED << shutdown, role, now, client, codec_vars, queue, handlers, sockets, server_vars, env >>

\* the peer closes the connection
PeerClose(c) ==
    /\ sockets[c].state = "open" /\ ~sockets[c].peer_closed
    /\ sockets' = [sockets EXCEPT ![c].peer_closed = TRUE]
    /\ UNCHANGED << shutdown, role, now, client, codec_vars, stop_event, queue, handlers, server_vars, env >>

(***************************************************************************)
(* SocketServer                                                            *)
(***************************************************************************)

\* a dict is the sequence of its << key, value >> items, in insertion order
MapHas(d, k)    == \E i \in 1..Len(d) : d[i][1] = k
MapGet(d, k)    == d[CHOOSE i \in 1..Len(d) : d[i][1] = k][2]
MapSet(d, k, v) ==
    IF MapHas(d, k) THEN [i \in 1..Len(d) |-> IF d[i][1] = k THEN << k, v >> ELSE d[i]]
    ELSE Append(d, << k, v >>)
MapDel(d, k)    == SelectSeq(d, LAMBDA e : e[1] # k)
MapValues(d)    == {d[i][2] : i \in 1..Len(d)}
MapKeys(d)      == {d[i][1] : i \in 1..Len(d)}

\* the address the c-th connection comes from (accept returns it), and one
\* no client has
ClientAddr(c) == PacketAddress(<< 10, 0, 0, c >>, 50000 + c)
UNKNOWN       == PacketAddress(<< 10, 0, 0, 0 >>, 50000)

\* _run_handler before its first iteration
RunThreadStart == [pc |-> "top", remove_addrs |-> << >>, tx_message |-> NoPacket]

\* a test that takes no message for a shutdown message
IsShutdown_Never(msg) == FALSE

\* msg.packet_type == PacketType.INTERNAL and msg.payload == "CONN_SHUTDOWN"
IsShutdown(msg) == msg.packet_type = INTERNAL /\ msg.payload = PyStr(CONN_SHUTDOWN)

\* the message forwarded with the address of its wire header
Stamp_Keep(msg, addr) == msg

\* msg.packet_address = addr
Stamp(msg, addr) == [msg EXCEPT !.packet_address = addr]

\* a broadcast that stops after the first tx queue
RouteTargets_First(txq, tx_message) ==
    IF tx_message.packet_address = BROADCAST_DEST
    THEN IF txq = << >> THEN {} ELSE {txq[1][2]}
    ELSE IF MapHas(txq, tx_message.packet_address)
         THEN {MapGet(txq, tx_message.packet_address)}
    ELSE {}

\* a message for an address without a tx queue treated as a broadcast
RouteTargets_Flood(txq, tx_message) ==
    IF MapHas(txq, tx_message.packet_address)
    THEN {MapGet(txq, tx_message.packet_address)}
    ELSE MapValues(txq)

\* the tx queues a message taken from outgoing_data is put on
RouteTargets(txq, tx_message) ==
    IF tx_message.packet_address = BROADCAST_DEST THEN MapValues(txq)
    ELSE IF MapHas(txq, tx_message.packet_address)
         THEN {MapGet(txq, tx_message.packet_address)}
    ELSE {}

\* _accept_handler: the c-th connection is accepted and queued for
\* registration with the address it comes from.  The thread may be inside
\* accept() when the stop event is set, so this can still follow it.
Accept(c) ==
    /\ role = "server" /\ accept_thread = "accept"
    /\ sockets[c].state = "none"
    /\ \A d \in Conns : d < c => sockets[d].state # "none"
    /\ sockets' = [sockets EXCEPT ![c] = OpenSocket(ClientAddr(c), << >>)]
    /\ new_socket_queue' = Append(new_socket_queue, << c, ClientAddr(c) >>)
    /\ UNCHANGED << shutdown, role, now, client, codec_vars, stop_event, queue, handlers, rx_queues,
                    tx_queues, connection_handlers, run_thread, accept_thread, env >>

\* _accept_handler leaves its loop
AcceptStop ==
    /\ role = "server" /\ accept_thread = "accept" /\ stop_event
    /\ accept_thread' = "done"
    /\ UNCHANGED << shutdown, role, now, client, codec_vars, engine_vars, rx_queues, tx_queues,
                    connection_handlers, new_socket_queue, run_thread, env >>

\* while not self.stop_event.is_set()
RunTop ==
    /\ role = "server" /\ run_thread.pc = "top"
    /\ run_thread' = [run_thread EXCEPT !.pc = IF stop_event THEN "done" ELSE "receive"]
    /\ UNCHANGED << shutdown, role, now, client, codec_vars, engine_vars, rx_queues, tx_queues,
                    connection_handlers, new_socket_queue, accept_thread, env >>

RECURSIVE DrainQueue(_, _, _)
\* while not queue.empty(): msg = queue.get() ... for the queue of addr.
\* st is what the loop has built so far: the addresses to remove and the
\* messages put on received_data
DrainQueue(msgs, addr, st) ==
    IF msgs = << >> THEN st
    ELSE IF IsShutdown(Head(msgs))
         THEN DrainQueue(Tail(msgs), addr,
                         [st EXCEPT !.remove_addrs = Append(@, addr)])
    ELSE DrainQueue(Tail(msgs), addr,
                    [st EXCEPT !.received = Append(@, Stamp(Head(msgs), addr))])

RECURSIVE DrainAll(_, _, _)
\* for addr, queue in self.rx_queues.items(): ... with the queues as in qs
DrainAll(rxq, qs, st) ==
    IF rxq = << >> THEN st
    ELSE DrainAll(Tail(rxq), qs, DrainQueue(qs[Head(rxq)[2]], Head(rxq)[1], st))

RECURSIVE Removal(_, _, _)
\* for addr in remove_addrs: del self.rx_queues[addr]; del self.tx_queues[addr]
\* a del of an address that is no key raises KeyError, which nothing catches
Removal(rxq, txq, addrs) ==
    IF addrs = << >> THEN [ok |-> TRUE, rx |-> rxq, tx |-> txq]
    ELSE IF ~MapHas(rxq, Head(addrs)) THEN [ok |-> FALSE, rx |-> rxq, tx |-> txq]
    ELSE IF ~MapHas(txq, Head(addrs))
         THEN [ok |-> FALSE, rx |-> MapDel(rxq, Head(addrs)), tx |-> txq]
    ELSE Removal(MapDel(rxq, Head(addrs)), MapDel(txq, Head(addrs)), Tail(addrs))

\* the first half of an iteration.  One accepted connection, if there is
\* one, gets its queues and a started handler and is registered under its
\* address.  Then every rx queue is drained: a shutdown message marks its
\* address for removal, any other message is stamped with the address and put
\* on received_data.  The addresses marked are removed; the KeyError of a
\* second del of the same address ends the thread.
RunReceive ==
    /\ role = "server" /\ run_thread.pc = "receive"
    /\ LET new     == new_socket_queue # << >>
           c       == Head(new_socket_queue)[1]
           addr    == Head(new_socket_queue)[2]
           rxq     == IF new THEN MapSet(rx_queues, addr, RxQueue(c)) ELSE rx_queues
           txq     == IF new THEN MapSet(tx_queues, addr, TxQueue(c)) ELSE tx_queues
           fresh   == [q \in QueueIds |->
                          IF new /\ q \in {TxQueue(c), RxQueue(c)} THEN << >> ELSE queue[q]]
           d       == DrainAll(rxq, fresh, [remove_addrs |-> << >>, received |-> << >>])
           r       == Removal(rxq, txq, d.remove_addrs)
       IN  /\ new_socket_queue' = IF new THEN Tail(new_socket_queue) ELSE new_socket_queue
           /\ connection_handlers' =
                  IF new THEN MapSet(connection_handlers, addr, c) ELSE connection_handlers
           /\ handlers' = IF new
                          THEN [handlers EXCEPT ![c] = StartedHandler(TxQueue(c), RxQueue(c))]
                          ELSE handlers
           /\ rx_queues' = r.rx
           /\ tx_queues' = r.tx
           /\ queue' = [q \in QueueIds |->
                          IF q \in MapValues(rxq) THEN << >>
                          ELSE IF q = RECEIVED_DATA THEN fresh[q] \o d.received
                          ELSE fresh[q]]
           /\ run_thread' = [run_thread EXCEPT !.pc = IF r.ok THEN "route" ELSE "crashed",
                                               !.remove_addrs = d.remove_addrs]
    /\ UNCHANGED << shutdown, role, now, client, codec_vars, stop_event, sockets, accept_thread, env >>

\* the second half.  One message of outgoing_data, if there is one, is put
\* on every tx queue (broadcast) or on the tx queue of its address; without
\* such a queue the KeyError is caught and printed.
RunRoute ==
    /\ role = "server" /\ run_thread.pc = "route"
    /\ IF queue[OUTGOING_DATA] # << >>
       THEN LET tx_message == Head(queue[OUTGOING_DATA])
                targets    == RouteTargets(tx_queues, tx_message)
            IN  /\ queue' = [q \in QueueIds |->
                               IF q = OUTGOING_DATA THEN Tail(queue[q])
                               ELSE IF q \in targets THEN Append(queue[q], tx_message)
                               ELSE queue[q]]
                /\ run_thread' = [run_thread EXCEPT !.pc = "top", !.tx_message = tx_message]
       ELSE /\ run_thread' = [run_thread EXCEPT !.pc = "top"]
            /\ UNCHANGED queue
    /\ UNCHANGED << shutdown, role, now, client, codec_vars, stop_event, handlers, sockets, rx_queues,
                    tx_queues, connection_handlers, new_socket_queue, accept_thread, env >>

(***************************************************************************)
(* SocketClient                                                            *)
(***************************************************************************)

\* disconnect_retry_interval, in seconds
RETRY_INTERVAL == 1

\* the address of the server the client connects to
SERVER == PacketAddress(<< 10, 0, 0, 0 >>, 2445)

\* SocketClient(...) followed by run().  handler is the connection of the
\* ConnectionHandler (0: None); client_socket the connection of the socket
\* (0: a socket that is not connected)
ClientStart ==
    [pc |-> "run", disconnected |-> TRUE, handler |-> 0, client_socket |-> 0,
     prev_connection_time |-> 0]

\* time.time() - self.prev_connection_time > self.disconnect_retry_interval
RetryDue(t, prev_connection_time) == t - prev_connection_time > RETRY_INTERVAL

\* while not self.stop_event.is_set(): the loop ends
ClientStop ==
    /\ role = "client" /\ client.pc = "run" /\ stop_event
    /\ client' = [client EXCEPT !.pc = "done"]
    /\ UNCHANGED << shutdown, role, now, codec_vars, engine_vars, server_vars, env >>

\* an iteration while disconnected, the retry interval over: a new socket
\* and connect.  The connection is the next one (the server accepts) and gets
\* a started handler on outgoing_data and internal_recv; or connect raises
\* (the server refuses) and the time is kept.
ClientConnect ==
    /\ role = "client" /\ client.pc = "run" /\ ~stop_event
    /\ client.disconnected
    /\ RetryDue(now, client.prev_connection_time)
    /\ \/ \E c \in Conns :
             /\ sockets[c].state = "none"
             /\ \A d \in Conns : d < c => sockets[d].state # "none"
             /\ sockets' = [sockets EXCEPT ![c] = OpenSocket(SERVER, << >>)]
             /\ handlers' = [handlers EXCEPT
                                ![c] = StartedHandler(OUTGOING_DATA, INTERNAL_RECV)]
             /\ client' = [client EXCEPT !.disconnected = FALSE, !.handler = c,
                                         !.client_socket = c]
             /\ UNCHANGED env
       \/ /\ env.refused < MaxRefused
          /\ client' = [client EXCEPT !.client_socket = 0, !.prev_connection_time = now]
          /\ env' = [env EXCEPT !.refused = @ + 1]
          /\ UNCHANGED << sockets, handlers >>
    /\ UNCHANGED << shutdown, role, now, codec_vars, stop_event, queue, server_vars >>

\* an iteration while connected, internal_recv not empty: a shutdown message
\* makes the client disconnected and its socket is shut down and closed (a
\* socket already closed, or reset by the peer, makes shutdown raise, which
\* is passed over); any other message goes to received_data
\* (env.lost_at keeps the time of the transition, which the code does not)
ClientRecv ==
    /\ role = "client" /\ client.pc = "run" /\ ~stop_event
    /\ ~client.disconnected
    /\ ~IsEmpty(INTERNAL_RECV)
    /\ LET msg == Head(queue[INTERNAL_RECV])
           s   == client.client_socket
       IN  IF IsShutdown(msg)
           THEN /\ client' = [client EXCEPT !.disconnected = TRUE]
                /\ queue' = Got(INTERNAL_RECV)
                /\ env' = [env EXCEPT !.lost_at = now]
                /\ \/ /\ sockets[s].state = "open"
                      /\ sockets' = [sockets EXCEPT ![s].state = "closed"]
                   \/ /\ sockets[s].state # "open" \/ sockets[s].peer_closed
                      /\ UNCHANGED sockets
           ELSE /\ queue' = [queue EXCEPT ![INTERNAL_RECV] = Tail(@),
                                          ![RECEIVED_DATA] = Append(@, msg)]
                /\ UNCHANGED << client, sockets, env >>
    /\ UNCHANGED << shutdown, role, now, codec_vars, stop_event, handlers, server_vars >>

\* a second passes; the clock is followed while the client waits for the
\* retry interval to end
Tick ==
    /\ role = "client"
    /\ ~RetryDue(now, client.prev_connection_time)
    /\ now' = now + 1
    /\ UNCHANGED << shutdown, role, codec_vars, engine_vars, server_vars, client, env >>

(***************************************************************************)
(* The environment of server and client: the application and the peers     *)
(***************************************************************************)

\* the frames peers send in one run, and the messages the application sends
MaxWire == 1
MaxOut  == 1

\* what the client on connection c sends: a message whose number tells the
\* connection and whose header carries the broadcast address (an ACK, from
\* the first client) or the address of the first client (a CONTROL message,
\* from the others), and an INTERNAL message that reads like the sentinel
ClientMessages(c) ==
    { IF c = 1 THEN Packet(ACK, BROADCAST_DEST, PyInt(c), Double(0))
      ELSE Packet(CONTROL, ClientAddr(1), PyDict(<< 97, c >>), Double(0)),
      Packet(INTERNAL, ClientAddr(c), PyStr(CONN_SHUTDOWN), Double(0)) }

\* what the application hands to the server: a message to all, to the first
\* client, to nobody the server knows
ServerMessages ==
    {Packet(ACK, a, PyInt(13), Double(0)) : a \in {BROADCAST_DEST, ClientAddr(1), UNKNOWN}}

\* what the server sends to a client: an ACK with the header of a broadcast,
\* and an INTERNAL message that reads like the sentinel
ServerFrames ==
    { Packet(ACK, BROADCAST_DEST, PyInt(7), Double(0)),
      Packet(INTERNAL, BROADCAST_DEST, PyStr(CONN_SHUTDOWN), Double(0)) }

\* what the application hands to the client
ClientOutgoing == {Packet(ACK, BROADCAST_DEST, PyInt(13), Double(0))}

\* what the peer of connection c sends, and what the application sends
FromPeer(c) == IF role = "client" THEN ServerFrames ELSE ClientMessages(c)
FromApp     == IF role = "client" THEN ClientOutgoing ELSE ServerMessages

\* the connections the peer closes: those of the server, and those of the
\* client after which it can connect once more
Closable == IF role = "client" THEN 1..(MaxConns - 1) ELSE Conns

\* the peer of connection c sends one frame, while the owner runs
PeerSend(c, m) ==
    /\ ~stop_event
    /\ sockets[c].state = "open" /\ ~sockets[c].peer_closed
    /\ env.frames < MaxWire
    /\ sockets' = [sockets EXCEPT ![c].net_in = @ \o pack(m, now).v]
    /\ env' = [env EXCEPT !.frames = @ + 1]
    /\ UNCHANGED << shutdown, role, now, client, codec_vars, stop_event, queue, handlers, server_vars >>

\* the application puts a message on outgoing_data, while the owner runs
AppSend(m) ==
    /\ ~stop_event
    /\ env.messages < MaxOut
    /\ queue' = Put(OUTGOING_DATA, m)
    /\ env' = [env EXCEPT !.messages = @ + 1]
    /\ UNCHANGED << shutdown, role, now, client, codec_vars, stop_event, handlers, sockets, server_vars >>

(***************************************************************************)
(* Specifications                                                          *)
(***************************************************************************)

CodecIdle ==
    /\ cmode = "none" /\ inputs = << >> /\ extra = << >> /\ cpc = "none"
    /\ wire = << >> /\ data = << >> /\ results = << >>

EngineIdle ==
    /\ stop_event = FALSE
    /\ queue = [q \in QueueIds |-> << >>]
    /\ handlers = [c \in Conns |-> NoHandler]
    /\ sockets = [c \in Conns |-> NoSocket]

ServerIdle ==
    /\ rx_queues = << >> /\ tx_queues = << >> /\ connection_handlers = << >>
    /\ new_socket_queue = << >>
    /\ run_thread = RunThreadStart
    /\ accept_thread = "accept"

ClientIdle == client = ClientStart

EnvIdle == env = [frames |-> 0, messages |-> 0, refused |-> 0, lost_at |-> 0]

\* shutdown() has not been called; the server socket listens
ShutdownIdle ==
    shutdown = [pc |-> "idle", pos |-> 0, size |-> 0, server_socket |-> "listening"]

\* the codec on its own
CodecInit ==
    /\ role = "codec"
    /\ cmode \in {"frames", "prefix", "fuzz"}
    /\ inputs \in IF cmode = "frames" THEN UNION {SeqsOf(Messages, n) : n \in 1..MaxFrames}
                  ELSE IF cmode = "prefix" THEN SeqsOf(Messages, 1)
                  ELSE {<< >>}
    /\ extra \in IF cmode = "frames" THEN ExtraBytes
                 ELSE IF cmode = "prefix" THEN {<< >>}
                 ELSE FuzzBuffers
    /\ now \in 1..MaxClock
    /\ cpc = "start"
    /\ wire = << >>
    /\ data = << >>
    /\ results = << >>
    /\ EngineIdle /\ ServerIdle /\ ClientIdle /\ EnvIdle /\ ShutdownIdle

CodecNext == CodecPack \/ CodecPrefix \/ CodecFuzz \/ CodecUnpack

SpecCodec == CodecInit /\ [][CodecNext]_vars

\* the messages a peer sends to the one handler examined on its own: a
\* CONTROL, an ACK and two INTERNAL ones, one of them with an empty payload
\* and one that reads like the sentinel
RxMessages ==
    { Packet(CONTROL, LOCALHOST, PyDict(<< 97, 1, 98, 255 >>), Double(0)),
      Packet(ACK, BROADCAST_DEST, PyInt(0), Double(0)),
      Packet(INTERNAL, LOCALHOST, PyStr(<< >>), Double(0)),
      Packet(INTERNAL, PEER, PyStr(CONN_SHUTDOWN), Double(0)) }

\* one started handler; the peer has sent the frames of 1..MaxFrames messages
RxInit ==
    /\ role = "rx"
    /\ now = 1
    /\ cmode = "none" /\ extra = << >> /\ cpc = "none"
    /\ data = << >> /\ results = << >>
    /\ inputs \in UNION {SeqsOf(RxMessages, n) : n \in 1..MaxFrames}
    /\ wire = PackAll(inputs, now).v
    /\ stop_event = FALSE
    /\ queue = [q \in QueueIds |-> << >>]
    /\ handlers = [c \in Conns |->
                     IF c = 1 THEN StartedHandler(TxQueue(1), RxQueue(1)) ELSE NoHandler]
    /\ sockets = [c \in Conns |-> IF c = 1 THEN OpenSocket(PEER, wire) ELSE NoSocket]
    /\ ServerIdle /\ ClientIdle /\ EnvIdle /\ ShutdownIdle

RxNext ==
    \/ RxLoop(1) \/ RxSentinel(1) \/ RxClose(1) \/ RxMark(1)
    \/ StopSignal \/ PeerClose(1)

SpecRx == RxInit /\ [][RxNext]_vars

\* SocketServer(...) followed by run(): both threads at the top of their loops
ServerInit ==
    /\ role = "server"
    /\ now = 1
    /\ CodecIdle /\ EngineIdle /\ ServerIdle /\ ClientIdle /\ EnvIdle /\ ShutdownIdle

\* the threads of the handlers
EngineNext ==
    \/ \E c \in Conns : RxLoop(c) \/ RxSentinel(c) \/ RxClose(c) \/ RxMark(c)
    \/ \E c \in Conns : TxLoop(c) \/ TxSend(c)

EnvNext ==
    \/ \E c \in Conns : \E m \in FromPeer(c) : PeerSend(c, m)
    \/ \E c \in Closable : PeerClose(c)
    \/ \E m \in FromApp : AppSend(m)
    \/ StopSignal

ServerNext ==
    \/ \E c \in Conns : Accept(c)
    \/ AcceptStop
    \/ RunTop \/ RunReceive \/ RunRoute
    \/ EngineNext
    \/ EnvNext

SpecServer == ServerInit /\ [][ServerNext]_vars

\* SocketClient(...) followed by run(), at a time later than the retry
\* interval after the epoch
ClientInit ==
    /\ role = "client"
    /\ now = RETRY_INTERVAL + 1
    /\ CodecIdle /\ EngineIdle /\ ServerIdle /\ ClientIdle /\ EnvIdle /\ ShutdownIdle

ClientNext ==
    \/ ClientConnect \/ ClientRecv \/ ClientStop
    \/ Tick
    \/ EngineNext
    \/ EnvNext

SpecClient == ClientInit /\ [][ClientNext]_vars

\* the receiving side of the client: its run thread and the rx threads of
\* its handlers, with the peer and the clock.  The tx threads and the
\* application, which write but outgoing_data, the bytes sent and their own
\* places, are left out.
ReconnectNext ==
    \/ ClientConnect \/ ClientRecv \/ ClientStop
    \/ Tick
    \/ \E c \in Conns : RxLoop(c) \/ RxSentinel(c) \/ RxClose(c) \/ RxMark(c)
    \/ \E c \in Conns : \E m \in FromPeer(c) : PeerSend(c, m)
    \/ \E c \in Closable : PeerClose(c)
    \/ StopSignal

\* RxLoop(c) can take a step: the condition under which one of its three
\* cases applies
RxLoopEnabled(c) ==
    /\ handlers[c].rx = "loop"
    /\ \/ stop_event
       \/ /\ sockets[c].state = "open"
          /\ sockets[c].net_in # << >> \/ EndOfStream(sockets[c])

\* every thread of the client gets to run, and time passes.  The last line
\* is the weak fairness of RxLoop(c), WF_vars(RxLoop(c)), written out with
\* RxLoopEnabled(c) for ENABLED << RxLoop(c) >>_vars.
ReconnectFairness ==
    /\ WF_vars(ClientConnect) /\ WF_vars(ClientRecv) /\ WF_vars(Tick)
    /\ \A c \in Conns : WF_vars(RxSentinel(c))
    /\ \A c \in Conns : []<>(~RxLoopEnabled(c)) \/ []<><< RxLoop(c) >>_vars

SpecReconnect == ClientInit /\ [][ReconnectNext]_vars /\ ReconnectFairness

\* a server, or a client
NetInit == ServerInit \/ ClientInit

NetNext ==
    \/ \E c \in Conns : Accept(c)
    \/ AcceptStop
    \/ RunTop \/ RunReceive \/ RunRoute
    \/ ClientConnect \/ ClientRecv \/ ClientStop
    \/ Tick
    \/ EngineNext
    \/ EnvNext

SpecNet == NetInit /\ [][NetNext]_vars

(***************************************************************************)
(* Claims about the codec (checked under SpecCodec)                        *)
(***************************************************************************)

\* p equals m in kind, address octets, port and payload
SameMessage(p, m) ==
    /\ p.packet_type = m.packet_type
    /\ p.packet_address.ip = m.packet_address.ip
    /\ p.packet_address.port = m.packet_address.port
    /\ PayloadEq(p.payload, m.payload)

\* the frames of inputs[i..] followed by the extra bytes
WireFrom(i) == PackAll(SubSeq(inputs, i, Len(inputs)), now).v \o extra

\* C2: round trip.  For every valid message m of kind CONTROL, ACK (any
\* non-negative integer) or INTERNAL, pack(m) succeeds and unpack(pack(m))
\* returns a packet equal to m in kind, address and payload, and an empty
\* remainder.
C2_RoundTrip ==
    (cmode = "frames" /\ Len(inputs) = 1 /\ extra = << >>) =>
        /\ cpc # "pack_raised"
        /\ Len(results) >= 1 =>
              /\ results[1].st = "packet"
              /\ SameMessage(results[1].pkt, inputs[1])
              /\ results[1].rest = << >>

\* C3: partial-frame safety.  For every message m and every proper prefix p
\* of pack(m), the empty one and those ending inside the header included,
\* unpack(p) returns (None, p), leaves the buffer as it is and does not raise.
C3_PartialFrame ==
    (cmode = "prefix" /\ Len(results) >= 1) =>
        /\ Len(results) = 1
        /\ results[1].st = "none"
        /\ results[1].rest = wire
        /\ data = wire

\* C3's case: a prefix that ends inside the payload has been handed to unpack
C3_Witness ==
    /\ cmode = "prefix" /\ cpc = "done"
    /\ Len(wire) > HEADER_SIZE

\* every frame of the buffer is unpacked as the message it was packed from,
\* and the remainder returned with it is exactly the bytes after that frame
FramesExtracted ==
    /\ Len(results) >= Len(inputs)
    /\ \A i \in 1..Len(inputs) :
          /\ results[i].st = "packet"
          /\ SameMessage(results[i].pkt, inputs[i])
          /\ results[i].rest = WireFrom(i + 1)

\* C4 as stated: unpack applied repeatedly to pack(m1) + pack(m2) + extra_bytes
\* yields m1, then m2, then (None, extra_bytes), for any extra_bytes.
C4_MultiFrame ==
    (cmode = "frames" /\ Len(inputs) = 2 /\ cpc = "done") =>
        /\ FramesExtracted
        /\ Len(results) = Len(inputs) + 1
        /\ results[Len(inputs) + 1].st = "none"
        /\ results[Len(inputs) + 1].rest = extra

\* C4 amended: unpack applied repeatedly to pack(m1) + pack(m2) + extra_bytes
\* yields m1, then m2, each with exactly the bytes after its frame as the
\* remainder, and then (None, extra_bytes) when extra_bytes is shorter than a
\* header or shorter than the header and the payload length it announces.
C4_MultiFrameAmended ==
    (cmode = "frames" /\ cpc = "done") =>
        /\ FramesExtracted
        /\ (Len(extra) < 25 \/ Len(extra) < 25 + PayloadLength(extra)) =>
              /\ Len(results) = Len(inputs) + 1
              /\ results[Len(inputs) + 1].st = "none"
              /\ results[Len(inputs) + 1].rest = extra

\* C4's case: two frames and five more bytes have been unpacked to the end
C4_Witness ==
    /\ cmode = "frames" /\ cpc = "done"
    /\ Len(inputs) = 2 /\ extra = Junk
    /\ Len(results) = 3

\* C5: unpack is total: for every byte sequence it returns a packet and the
\* remainder, or None and the buffer, and never raises.
C5_DecodeTotal == \A i \in 1..Len(results) : results[i].st # "raise"

(***************************************************************************)
(* Claims about the receive path (checked under SpecRx)                    *)
(***************************************************************************)

\* the bytes recv has returned so far
BytesRead == Slice(wire, 0, Len(wire) - Len(sockets[1].net_in))

RECURSIVE WholeFrames(_, _)
\* how many of the frames of inputs[i..] fit into n bytes
WholeFrames(i, n) ==
    IF i > Len(inputs) THEN 0
    ELSE LET len == Len(pack(inputs[i], now).v)
         IN  IF len > n THEN 0 ELSE 1 + WholeFrames(i + 1, n - len)

\* the receive loop has ended and put its sentinel
RxEnded == handlers[1].rx \in {"close", "mark", "done"}

\* C1: however the byte stream of the frames of m1..mn is split into the
\* chunks recv returns, the receive path puts exactly m1..mn on its rx queue,
\* in wire order: at any moment the queue holds the messages of the whole
\* frames read so far, none lost, repeated or out of order, and the sentinel,
\* when there is one, comes after them.
C1_WireOrder ==
    role = "rx" =>
        LET q == queue[RxQueue(1)]
            n == Len(q) - (IF RxEnded THEN 1 ELSE 0)
        IN  /\ n >= 0
            /\ n = WholeFrames(1, Len(BytesRead))
            /\ \A i \in 1..n : SameMessage(q[i], inputs[i])
            /\ RxEnded => q[Len(q)] = ShutdownPacket(now)

\* C1's case: the first of two messages is on the queue and the bytes read
\* after it end inside the header of the second
C1_Witness ==
    /\ role = "rx" /\ Len(inputs) = 2
    /\ handlers[1].rx = "loop"
    /\ Len(queue[RxQueue(1)]) = 1
    /\ Len(handlers[1].recv_bytes) > 0
    /\ Len(handlers[1].recv_bytes) < HEADER_SIZE

(***************************************************************************)
(* Claims about the server (checked under SpecServer)                      *)
(***************************************************************************)

\* a step in which the run thread routes the first message of outgoing_data
Routing ==
    /\ role = "server" /\ run_thread.pc = "route" /\ queue[OUTGOING_DATA] # << >>
    /\ run_thread'.pc # "route"

\* the tx queues registered under address a
QueuesOf(a) == {tx_queues[i][2] : i \in {j \in 1..Len(tx_queues) : tx_queues[j][1] = a}}

\* the tx queues of all registered clients
Registered == {tx_queues[i][2] : i \in 1..Len(tx_queues)}

\* the queues of the model a routed message must not reach
NotOutbound == QueueIds \ ({OUTGOING_DATA} \cup {TxQueue(c) : c \in Conns})

\* C6: when the server routes an outbound message addressed to BROADCAST, the
\* message is appended to the tx queue of every client registered at that
\* moment and to no other queue; when it routes a message addressed to a
\* registered client A, the message is appended to A's tx queue only.
C6_Routing ==
    [][Routing =>
          LET m  == Head(queue[OUTGOING_DATA])
              to == IF m.packet_address = BROADCAST_DEST THEN Registered
                    ELSE QueuesOf(m.packet_address)
          IN  (m.packet_address = BROADCAST_DEST \/ QueuesOf(m.packet_address) # {}) =>
                  /\ queue'[OUTGOING_DATA] = Tail(queue[OUTGOING_DATA])
                  /\ \A c \in Conns :
                        queue'[TxQueue(c)] = IF TxQueue(c) \in to
                                             THEN Append(queue[TxQueue(c)], m)
                                             ELSE queue[TxQueue(c)]
                  /\ \A q \in NotOutbound : queue'[q] = queue[q]
                  /\ m.packet_address # BROADCAST_DEST => Cardinality(to) = 1
      ]_vars

\* C6's case: two clients are registered and the broadcast the run thread has
\* just routed is the last message of both tx queues
C6_Witness ==
    /\ role = "server" /\ run_thread.pc = "top"
    /\ run_thread.tx_message.packet_address = BROADCAST_DEST
    /\ run_thread.tx_message.packet_type = ACK
    /\ Cardinality(Registered) = 2
    /\ \A q \in Registered :
          queue[q] # << >> /\ queue[q][Len(queue[q])] = run_thread.tx_message

\* C7: when the server routes an outbound message whose address is neither
\* BROADCAST nor that of a registered client, the message is dropped: it
\* leaves outgoing_data, no queue gains it, every tx queue and both maps stay
\* as they are, and the run thread goes on to its next iteration.
C7_UnknownDestination ==
    [][Routing =>
          LET m == Head(queue[OUTGOING_DATA])
          IN  (m.packet_address # BROADCAST_DEST /\ QueuesOf(m.packet_address) = {}) =>
                  /\ queue'[OUTGOING_DATA] = Tail(queue[OUTGOING_DATA])
                  /\ \A q \in QueueIds \ {OUTGOING_DATA} : queue'[q] = queue[q]
                  /\ tx_queues' = tx_queues
                  /\ rx_queues' = rx_queues
                  /\ run_thread'.pc = "top"
      ]_vars

\* C7's case: with a client registered, the run thread has routed a message
\* for an address that has no tx queue and is back at the top of its loop
C7_Witness ==
    /\ role = "server" /\ run_thread.pc = "top"
    /\ run_thread.tx_message.packet_type = ACK
    /\ run_thread.tx_message.packet_address = UNKNOWN
    /\ Registered # {}
    /\ env.messages = 1 /\ queue[OUTGOING_DATA] = << >>
    /\ \A c \in Conns : queue[TxQueue(c)] = << >> /\ sockets[c].net_out = << >>

\* the connection a message of a client was sent on: the number in its payload
Sender(m) == IF m.payload.t = "int" THEN m.payload.v[1] ELSE m.payload.v[2]

\* C8: every message on received_data carries the address under which the
\* connection it came in on is registered, whatever its wire header said.
C8_OriginStamp ==
    role = "server" =>
        \A i \in 1..Len(queue[RECEIVED_DATA]) :
            LET m == queue[RECEIVED_DATA][i]
            IN  /\ Sender(m) \in Conns
                /\ m.packet_address = sockets[Sender(m)].addr
                /\ m.packet_address = ClientAddr(Sender(m))

\* C8's case: the ACK the first client sent with the broadcast address in its
\* header is on received_data
C8_Witness ==
    /\ role = "server"
    /\ \E i \in 1..Len(queue[RECEIVED_DATA]) :
          /\ queue[RECEIVED_DATA][i].packet_type = ACK
          /\ queue[RECEIVED_DATA][i].payload = PyInt(1)
          /\ queue[RECEIVED_DATA][i].packet_address = ClientAddr(1)

(***************************************************************************)
(* Claims about server and client (checked under SpecNet and SpecClient)   *)
(***************************************************************************)

\* an INTERNAL message with the payload "CONN_SHUTDOWN"
ShutdownMessage(m) == m.packet_type = INTERNAL /\ m.payload = PyStr(CONN_SHUTDOWN)

\* the inbound queues of the engines
Inbound == {INTERNAL_RECV} \cup {RxQueue(c) : c \in Conns}

\* the messages a step takes from queue q
Taken(q) ==
    IF Len(queue'[q]) < Len(queue[q])
    THEN SubSeq(queue[q], 1, Len(queue[q]) - Len(queue'[q]))
    ELSE << >>

\* the messages a step adds to received_data
Added ==
    SubSeq(queue'[RECEIVED_DATA], Len(queue[RECEIVED_DATA]) + 1, Len(queue'[RECEIVED_DATA]))

\* the places of the messages a step takes from the inbound queues that are
\* no shutdown messages
TakenToForward ==
    UNION {{<< q, i >> : i \in {k \in 1..Len(Taken(q)) : ~ShutdownMessage(Taken(q)[k])}} :
           q \in Inbound}

\* m is message p, whatever its address
Forwards(m, p) ==
    /\ m.packet_type = p.packet_type
    /\ m.payload = p.payload
    /\ m.timestamp = p.timestamp

\* every step adds to received_data, behind what is there, the messages it
\* takes from the inbound queues that are no shutdown messages, once each
ForwardedOnce ==
    /\ Len(queue'[RECEIVED_DATA]) >= Len(queue[RECEIVED_DATA])
    /\ SubSeq(queue'[RECEIVED_DATA], 1, Len(queue[RECEIVED_DATA])) = queue[RECEIVED_DATA]
    /\ Len(Added) = Cardinality(TakenToForward)
    /\ \A t \in TakenToForward :
          LET p == Taken(t[1])[t[2]]
          IN  Cardinality({j \in 1..Len(Added) : Forwards(Added[j], p)})
                 = Cardinality({u \in TakenToForward : Forwards(Taken(u[1])[u[2]], p)})

\* C9: no INTERNAL message with the payload "CONN_SHUTDOWN" is ever on
\* received_data, of the server or of the client, and every other message
\* taken from an inbound queue of an engine is put on received_data once.
C9_ShutdownFiltered ==
    /\ [](\A i \in 1..Len(queue[RECEIVED_DATA]) : ~ShutdownMessage(queue[RECEIVED_DATA][i]))
    /\ [][ForwardedOnce]_vars

\* C9's case: the client has forwarded a message to received_data and has
\* taken the sentinel of its connection, which made it disconnected
C9_Witness ==
    /\ role = "client"
    /\ client.handler # 0 /\ client.disconnected
    /\ handlers[client.handler].rx \in {"close", "mark", "done"}
    /\ queue[INTERNAL_RECV] = << >>
    /\ queue[RECEIVED_DATA] # << >>

\* the peer has closed connection c, on which the client is connected, and
\* stop is not signaled
PeerGone(c) ==
    /\ role = "client" /\ ~stop_event
    /\ ~client.disconnected /\ client.handler = c
    /\ sockets[c].state = "open" /\ sockets[c].peer_closed

\* the client is connected on a connection made after c, with a started
\* handler
Reconnected(c) ==
    /\ ~client.disconnected /\ client.handler > c
    /\ client.client_socket = client.handler
    /\ handlers[client.handler].rx # "idle" /\ handlers[client.handler].tx # "idle"

\* C10: when the peer closes the connection of a connected client, then,
\* unless stop is signaled, the client becomes disconnected, and later
\* connected again on a new connection with a started handler.
C10_Reconnect ==
    \A c \in Conns :
        /\ PeerGone(c) ~> (stop_event \/ client.disconnected)
        /\ PeerGone(c) ~> (stop_event \/ Reconnected(c))

\* C10's case: the peer closed the first connection, its handler has ended,
\* and the client is connected on the second
C10_Witness ==
    /\ role = "client" /\ ~stop_event
    /\ sockets[1].peer_closed /\ handlers[1].rx = "done"
    /\ Reconnected(1)

(***************************************************************************)
(* The client's retry interval                                             *)
(***************************************************************************)

\* a step in which the client attempts a connection: it was disconnected, and
\* is connected after it, or the attempt was refused
Attempt ==
    /\ role = "client" /\ client.disconnected
    /\ client'.disconnected = FALSE \/ env'.refused # env.refused

\* the client has lost a connection: it is disconnected after it had a handler
LostConnection == client.disconnected /\ client.handler # 0

\* C11: after the client has lost a connection and become disconnected, it
\* attempts no connection before the retry interval has passed since the time
\* it became disconnected.
C11_RetryAfterLoss ==
    [][(Attempt /\ LostConnection) => now - env.lost_at > RETRY_INTERVAL]_vars

(***************************************************************************)
(* The server's run thread                                                 *)
(***************************************************************************)

\* the run thread has ended: its loop test saw stop, or an exception left
\* _run_handler
RunEnded == run_thread.pc \in {"done", "crashed"}

\* C15: the run thread of the server ends only when stop is signaled,
\* whatever the clients connect, send (shutdown messages over the wire
\* included) and close.
C15_RunsUntilStop == (role = "server" /\ RunEnded) => stop_event

(***************************************************************************)
(* The size of a frame (checked under SpecCodec)                           *)
(***************************************************************************)

\* with a header of h bytes: the frame of one message is h bytes and its
\* payload; the first unpack of a buffer returns None exactly when the buffer
\* is shorter than h bytes or than h bytes and the payload length of its
\* header; and a packet comes with the bytes after h and that length
FrameLayout(h) ==
    /\ (cmode = "frames" /\ Len(inputs) = 1 /\ cpc \in {"unpacking", "done"}) =>
          Len(wire) = h + Len(PayloadData(inputs[1].payload).v) + Len(extra)
    /\ Len(results) >= 1 =>
          /\ results[1].st = "none" <=>
                (Len(wire) < h \/ Len(wire) < h + PayloadLength(wire))
          /\ results[1].st = "none" => results[1].rest = wire
          /\ results[1].st = "packet" =>
                results[1].rest = From(wire, h + PayloadLength(wire))

C17_NoBroadcastInbound ==
    \A i \in 1..Len(queue[RECEIVED_DATA]) :
        queue[RECEIVED_DATA][i].packet_address # BROADCAST_DEST

(***************************************************************************)
(* The end of the tx thread                                                *)
(***************************************************************************)

\* the tx thread of connection c has ended
TxEnded(h) == h.tx \in {"done", "failed"}

\* C18: an exception of pack or of sendall while the handler has not exited
\* does not end the tx thread: the thread ends only when stop is signaled or
\* the exited flag is set.
C18_TxSurvivesFailure ==
    [][\A c \in Conns :
          (~TxEnded(handlers[c]) /\ TxEnded(handlers'[c])) =>
              (stop_event \/ handlers[c].exited)]_vars

(***************************************************************************)
(* The sentinel of a handler (checked under SpecRx)                        *)
(***************************************************************************)

\* m reads as the sentinel of a handler
Sentinel(m) ==
    /\ m.packet_type = INTERNAL
    /\ m.packet_address = BROADCAST_DEST
    /\ m.payload = PyStr(CONN_SHUTDOWN)

\* how many messages of the rx queue of the handler read as the sentinel
Sentinels ==
    Cardinality({i \in 1..Len(queue[RxQueue(1)]) : Sentinel(queue[RxQueue(1)][i])})

\* a step of the rx thread of the handler: the loop is left only on stop or
\* at the end of the stream; the step after the loop puts the sentinel, and
\* nothing is put after it
SentinelStep ==
    LET h  == handlers[1]
        q  == queue[RxQueue(1)]
    IN  /\ (h.rx = "loop" /\ handlers'[1].rx # "loop") =>
              /\ handlers'[1].rx = "exit"
              /\ stop_event \/ (sockets[1].peer_closed /\ sockets[1].net_in = << >>)
              /\ queue'[RxQueue(1)] = q
        /\ (h.rx = "exit" /\ handlers'[1].rx # "exit") =>
              /\ Len(queue'[RxQueue(1)]) = Len(q) + 1
              /\ SubSeq(queue'[RxQueue(1)], 1, Len(q)) = q
              /\ Sentinel(queue'[RxQueue(1)][Len(q) + 1])
              /\ sockets'[1].state = "open" /\ ~handlers'[1].exited
        /\ h.rx \in {"close", "mark", "done"} => queue'[RxQueue(1)] = q

\* C19: a handler puts exactly one INTERNAL "CONN_SHUTDOWN" message addressed
\* to the broadcast address on its rx queue, when its receive loop ends (on
\* stop or when the peer has closed), and puts no message after it; then the
\* socket is closed, and then the exited flag is set.
C19_Sentinel ==
    /\ [](role = "rx" =>
            /\ Sentinels = (IF RxEnded THEN 1 ELSE 0)
            /\ handlers[1].rx \in {"mark", "done"} => sockets[1].state = "closed"
            /\ handlers[1].exited <=> handlers[1].rx = "done")
    /\ [][role = "rx" => SentinelStep]_vars

\* C19's case: the peer closed after a message; the handler has put the
\* message and the sentinel, closed the socket and set the flag
C19_Witness ==
    /\ role = "rx" /\ ~stop_event /\ sockets[1].peer_closed
    /\ handlers[1].rx = "done" /\ handlers[1].exited
    /\ sockets[1].state = "closed"
    /\ Len(queue[RxQueue(1)]) >= 2
    /\ Sentinel(queue[RxQueue(1)][Len(queue[RxQueue(1)])])

(***************************************************************************)
(* Removals from queues                                                    *)
(***************************************************************************)

\* the tx thread of connection c is at tx_queue.get(), after it found the
\* queue not empty, and the queue is empty: the thread waits in get
BlockedInGet(c) == handlers[c].tx = "get" /\ IsEmpty(handlers[c].tx_queue)

\* C20: every get finds its queue not empty, so no thread ever waits in a
\* get, in any interleaving; the outgoing_data of the client, which each of
\* its handlers gets as tx queue, included.
C20_GetNeverBlocks == \A c \in Conns : ~BlockedInGet(c)

(***************************************************************************)
(* shutdown() of the server and of the client, and ConnectionHandler.join  *)
(***************************************************************************)

\* ConnectionHandler.join() of the handler of connection c can return: both
\* of its threads have ended
Joined(c) == handlers[c].tx \in {"done", "failed"} /\ handlers[c].rx = "done"

\* SocketServer.shutdown: self.stop_event.set()
ServerShutdown ==
    /\ role = "server" /\ shutdown.pc = "idle"
    /\ stop_event' = TRUE
    /\ shutdown' = [shutdown EXCEPT !.pc = "iter"]
    /\ UNCHANGED << role, now, client, codec_vars, queue, handlers, sockets, server_vars, env >>

\* for handler in self.connection_handlers.values(): the iterator is made,
\* and keeps the size the dict has now
ShutdownIter ==
    /\ role = "server" /\ shutdown.pc = "iter"
    /\ shutdown' = [shutdown EXCEPT !.pc = "next", !.pos = 0,
                                    !.size = Len(connection_handlers)]
    /\ UNCHANGED << role, now, client, codec_vars, engine_vars, server_vars, env >>

\* the iterator is asked for the next handler: RuntimeError (dictionary
\* changed size during iteration) when the dict has not the size kept, the
\* end of the loop after the last item, the next item otherwise
ShutdownNext ==
    /\ role = "server" /\ shutdown.pc = "next"
    /\ shutdown' =
          IF Len(connection_handlers) # shutdown.size
          THEN [shutdown EXCEPT !.pc = "raised"]
          ELSE IF shutdown.pos = shutdown.size
          THEN [shutdown EXCEPT !.pc = "join_run"]
          ELSE [shutdown EXCEPT !.pc = "join_handler", !.pos = @ + 1]
    /\ UNCHANGED << role, now, client, codec_vars, engine_vars, server_vars, env >>

\* handler.join() returns
ShutdownJoinHandler ==
    /\ role = "server" /\ shutdown.pc = "join_handler"
    /\ Joined(connection_handlers[shutdown.pos][2])
    /\ shutdown' = [shutdown EXCEPT !.pc = "next"]
    /\ UNCHANGED << role, now, client, codec_vars, engine_vars, server_vars, env >>

\* self.run_thread.join() returns
ShutdownJoinRun ==
    /\ role = "server" /\ shutdown.pc = "join_run"
    /\ run_thread.pc \in {"done", "crashed"}
    /\ shutdown' = [shutdown EXCEPT !.pc = "join_accept"]
    /\ UNCHANGED << role, now, client, codec_vars, engine_vars, server_vars, env >>

\* self.socket_accept_thread.join() returns
ShutdownJoinAccept ==
    /\ role = "server" /\ shutdown.pc = "join_accept"
    /\ accept_thread = "done"
    /\ shutdown' = [shutdown EXCEPT !.pc = "close"]
    /\ UNCHANGED << role, now, client, codec_vars, engine_vars, server_vars, env >>

\* server_socket.shutdown(socket.SHUT_RDWR); server_socket.close(), in a try
\* whose except passes: shutdown of a listening socket succeeds or raises
\* OSError (not connected) by the platform, and when it raises close is not
\* reached
ShutdownClose ==
    /\ role = "server" /\ shutdown.pc = "close"
    /\ \E closed \in BOOLEAN :
          shutdown' = [shutdown EXCEPT
                          !.pc = "done",
                          !.server_socket = IF closed THEN "closed" ELSE @]
    /\ UNCHANGED << role, now, client, codec_vars, engine_vars, server_vars, env >>

\* SocketClient.shutdown: self.stop_event.set()
ClientShutdown ==
    /\ role = "client" /\ shutdown.pc = "idle"
    /\ stop_event' = TRUE
    /\ shutdown' = [shutdown EXCEPT !.pc = "join_run"]
    /\ UNCHANGED << role, now, client, codec_vars, queue, handlers, sockets, server_vars, env >>

\* self.run_thread.join() returns, and self.handler.join() is called:
\* AttributeError when self.handler is None
ClientJoinRun ==
    /\ role = "client" /\ shutdown.pc = "join_run"
    /\ client.pc = "done"
    /\ shutdown' = [shutdown EXCEPT
                       !.pc = IF client.handler = 0 THEN "raised" ELSE "join_handler"]
    /\ UNCHANGED << role, now, client, codec_vars, engine_vars, server_vars, env >>

\* self.handler.join() returns; client_socket.shutdown(socket.SHUT_RDWR);
\* client_socket.close(), in a try whose except passes: the socket is closed
\* by now, by the rx thread of the handler
ClientJoinHandler ==
    /\ role = "client" /\ shutdown.pc = "join_handler"
    /\ Joined(client.handler)
    /\ shutdown' = [shutdown EXCEPT !.pc = "done"]
    /\ sockets' = IF client.client_socket # 0 /\ sockets[client.client_socket].state = "open"
                  THEN [sockets EXCEPT ![client.client_socket].state = "closed"]
                  ELSE sockets
    /\ UNCHANGED << role, now, client, codec_vars, stop_event, queue, handlers, server_vars, env >>

\* the server with a caller of shutdown(): clients connect and close, the
\* application sends, and shutdown() is called at any moment
ServerShutdownNext ==
    \/ \E c \in Conns : Accept(c)
    \/ AcceptStop
    \/ RunTop \/ RunReceive \/ RunRoute
    \/ EngineNext
    \/ \E c \in Conns : PeerClose(c)
    \/ \E m \in ServerMessages : AppSend(m)
    \/ ServerShutdown \/ ShutdownIter \/ ShutdownNext \/ ShutdownJoinHandler
    \/ ShutdownJoinRun \/ ShutdownJoinAccept \/ ShutdownClose

SpecServerShutdown == ServerInit /\ [][ServerShutdownNext]_vars

(***************************************************************************)
(* Claims about shutdown()                                                 *)
(***************************************************************************)

\* the handler of connection c was started
Started(c) == handlers[c].rx # "idle"

\* C13: shutdown() of the server, called at any moment (while the run thread
\* registers a new connection included), does not raise, and when it has
\* returned every handler ever started has ended, so have the run thread and
\* the accept thread, and the listening socket is closed.
C13_ServerShutdown ==
    role = "server" =>
        /\ shutdown.pc # "raised"
        /\ shutdown.pc = "done" =>
              /\ \A c \in Conns : Started(c) => Joined(c)
              /\ run_thread.pc \in {"done", "crashed"}
              /\ accept_thread = "done"
              /\ shutdown.server_socket = "closed"

\* C14: shutdown() of the client, called in any state (disconnected with no
\* handler ever made, disconnected after a lost connection, connected), does
\* not raise: it joins the run thread, joins the handler only when there is
\* one, and closes the socket.
C14_ClientShutdown ==
    role = "client" =>
        /\ shutdown.pc # "raised"
        /\ shutdown.pc = "done" =>
              /\ client.pc = "done"
              /\ client.handler # 0 =>
                    /\ Joined(client.handler)
                    /\ sockets[client.handler].state = "closed"

\* the client with a caller of shutdown(): the server closes connections and
\* refuses attempts, the application sends, and shutdown() is called at any
\* moment
ClientShutdownNext ==
    \/ ClientConnect \/ ClientRecv \/ ClientStop
    \/ Tick
    \/ EngineNext
    \/ \E c \in Closable : PeerClose(c)
    \/ \E m \in ClientOutgoing : AppSend(m)
    \/ ClientShutdown \/ ClientJoinRun \/ ClientJoinHandler

\* TxSend(c) can take a step: the thread is at get and the queue is not empty
TxSendEnabled(c) == handlers[c].tx = "get" /\ ~IsEmpty(handlers[c].tx_queue)

\* every thread that can run gets to run, and time passes.  The weak
\* fairness of RxLoop(c) and of TxSend(c) is written out with RxLoopEnabled(c)
\* and TxSendEnabled(c).
ThreadFairness ==
    /\ WF_vars(ClientConnect) /\ WF_vars(ClientRecv) /\ WF_vars(ClientStop)
    /\ WF_vars(Tick)
    /\ WF_vars(ClientJoinRun) /\ WF_vars(ClientJoinHandler)
    /\ \A c \in Conns :
          /\ WF_vars(RxSentinel(c)) /\ WF_vars(RxClose(c)) /\ WF_vars(RxMark(c))
          /\ WF_vars(TxLoop(c))
          /\ []<>(~RxLoopEnabled(c)) \/ []<><< RxLoop(c) >>_vars
          /\ []<>(~TxSendEnabled(c)) \/ []<><< TxSend(c) >>_vars

SpecClientShutdown == ClientInit /\ [][ClientShutdownNext]_vars /\ ThreadFairness

\* C12: once stop is signaled, the rx thread and the tx thread of every
\* started handler end, so that join() returns; and when both have ended the
\* socket of the handler is closed and its exited flag is set.
C12_EngineShutdown ==
    /\ stop_event ~> (\A c \in Conns : Started(c) => Joined(c))
    /\ [](\A c \in Conns : Joined(c) => (sockets[c].state = "closed" /\ handlers[c].exited))

(***************************************************************************)
(* The removal of a client from the maps of the server                     *)
(***************************************************************************)

\* a step in which the run thread removes the client of connection c from
\* rx_queues and tx_queues: its address is among those the drain has marked
Removes(c) ==
    /\ role = "server" /\ run_thread.pc = "receive" /\ run_thread'.pc # "receive"
    /\ \E i \in 1..Len(run_thread'.remove_addrs) :
          run_thread'.remove_addrs[i] = ClientAddr(c)

\* C21: whenever the run thread of the server removes a client from its
\* maps, the handler of that client has ended: its rx thread and its tx
\* thread have ended and its socket is closed.
C21_RemovedHasEnded ==
    [][\A c \in Conns :
          Removes(c) => (Joined(c) /\ sockets[c].state = "closed")]_vars

\* the addresses that are keys of the dict d
KeysOf(d) == {d[i][1] : i \in 1..Len(d)}

\* C22: when the run thread has processed the shutdown message of a client
\* whose connection has ended, none of rx_queues, tx_queues and
\* connection_handlers keeps an entry for the address of that client.
C22_NoEntryKept ==
    [][\A c \in Conns :
          (Removes(c) /\ run_thread'.pc = "route" /\ handlers[c].rx # "loop") =>
              /\ ClientAddr(c) \notin KeysOf(rx_queues')
              /\ ClientAddr(c) \notin KeysOf(tx_queues')
              /\ ClientAddr(c) \notin KeysOf(connection_handlers')]_vars

(***************************************************************************)
(* The order of the messages sent                                          *)
(***************************************************************************)

\* the message the application has put on outgoing_data before anything
\* else happens: an ACK to all or, on the server, to the first client
FirstMessages ==
    {Packet(ACK, a, PyInt(11), Double(0)) :
        a \in IF role = "server" THEN {BROADCAST_DEST, ClientAddr(1)} ELSE {BROADCAST_DEST}}

\* a server or a client after run(), with one message on outgoing_data
OrderInit ==
    /\ role \in {"server", "client"}
    /\ now = IF role = "client" THEN RETRY_INTERVAL + 1 ELSE 1
    /\ CodecIdle /\ ServerIdle /\ ClientIdle /\ EnvIdle /\ ShutdownIdle
    /\ stop_event = FALSE
    /\ \E x \in FirstMessages :
          queue = [q \in QueueIds |-> IF q = OUTGOING_DATA THEN << x >> ELSE << >>]
    /\ handlers = [c \in Conns |-> NoHandler]
    /\ sockets = [c \in Conns |-> NoSocket]

\* the threads of the server or of the client and of their handlers, peers
\* that connect and close, and an application that puts a second message;
\* stop is not signaled
OrderNext ==
    \/ \E c \in Conns : Accept(c)
    \/ RunTop \/ RunReceive \/ RunRoute
    \/ ClientConnect \/ ClientRecv
    \/ Tick
    \/ EngineNext
    \/ \E c \in Closable : PeerClose(c)
    \/ \E m \in FromApp : AppSend(m)

SpecOrder == OrderInit /\ [][OrderNext]_vars

\* the payloads of the ACK messages in the order the application puts them
\* on outgoing_data: the first message, then the one of AppSend
Submitted == << PyInt(11), PyInt(13) >>

\* the place of payload p in that order
Position(p) == CHOOSE i \in 1..Len(Submitted) : Submitted[i] = p

\* the frames written to connection c so far, unpacked, and the bytes after
\* the last whole frame
WrittenTo(c) == UnpackLoop(sockets[c].net_out)

\* how many of the frames written to connection c carry payload p
Copies(c, p) ==
    Cardinality({i \in 1..Len(WrittenTo(c).pkts) : WrittenTo(c).pkts[i].payload = p})

\* C23: the messages written to one connection are written in the order the
\* application put them on outgoing_data, each as one whole frame and no
\* more often than it was put, none within or before the frame of an earlier
\* one; on the server, for broadcast and unicast messages, and on the client.
C23_OutboundOrder ==
    \A c \in Conns :
        LET w == WrittenTo(c) IN
        /\ w.rest = << >>
        /\ Copies(c, Submitted[1]) <= 1
        /\ Copies(c, Submitted[2]) <= env.messages
        /\ \A i \in 1..Len(w.pkts) :
              /\ \E k \in 1..Len(Submitted) : w.pkts[i].payload = Submitted[k]
              /\ \A j \in 1..Len(w.pkts) :
                    i < j => Position(w.pkts[i].payload) <= Position(w.pkts[j].payload)

\* C23's case: both messages have been written to the connection of the
\* first client of the server
C23_Witness ==
    /\ role = "server"
    /\ Len(WrittenTo(1).pkts) = 2
    /\ WrittenTo(1).pkts[1].payload = PyInt(11)
    /\ WrittenTo(1).pkts[2].payload = PyInt(13)

=============================================================================
